---- MODULE Spec2Model ----
(***************************************************************************)
(* State-machine model of the EEA SDI catalogue MCP gateway:                *)
(*   src/src/index.ts     SdiCatalogueServer.handleToolCall (dispatcher)    *)
(*   src/src/handlers.ts  ToolHandlers (lines 24-889)                       *)
(* A tool call is a sequence of steps; each step runs the handler from one  *)
(* await to the next.  The catalogue's answers are the inputs of the steps. *)
(***************************************************************************)
EXTENDS Integers, Sequences, FiniteSets, TLC

(* ------------------------------ bounds --------------------------------- *)
MaxCalls == 2
MaxCfg == 2
MaxSize == 3
MaxFrom == 2
MaxTotal == 4

(* ------------------------- program constants --------------------------- *)
SIGNIN_TIMEOUT == 10000
CLIENT_TIMEOUT == 30000
DEFAULT_SIZE == 10
NO_TIMEOUT == 0

Calls == 1..MaxCalls

Min(a, b) == IF a <= b THEN a ELSE b
Max(a, b) == IF a >= b THEN a ELSE b

(* ---------------------- dispatcher name table -------------------------- *)
(* The own keys of the toolHandlers object literal and the ToolHandlers     *)
(* method each thunk calls.                                                 *)
toolHandlers ==
  [ search_records        |-> "searchRecords",
    get_record            |-> "getRecord",
    get_record_formatters |-> "getRecordFormatters",
    export_record         |-> "exportRecord",
    list_groups           |-> "listGroups",
    get_sources           |-> "getSources",
    get_site_info         |-> "getSiteInfo",
    get_related_records   |-> "getRelatedRecords",
    get_tags              |-> "getTags",
    get_regions           |-> "getRegions",
    search_by_extent      |-> "searchByExtent",
    duplicate_record      |-> "duplicateRecord",
    update_record         |-> "updateRecord",
    get_record_by_id      |-> "getRecordById",
    update_record_title   |-> "updateRecordTitle",
    add_record_tags       |-> "addRecordTags",
    delete_record_tags    |-> "deleteRecordTags",
    get_attachments       |-> "getAttachments",
    delete_attachment     |-> "deleteAttachment",
    upload_file_to_record |-> "uploadFileToRecord" ]

RegisteredNames == DOMAIN toolHandlers

(* tools.ts 3-409: the names the registry advertises through tools/list *)
tools ==
  { "search_records", "get_record", "get_record_formatters", "export_record",
    "list_groups", "get_sources", "get_site_info", "get_related_records",
    "get_tags", "get_regions", "search_by_extent", "duplicate_record",
    "update_record", "get_record_by_id", "update_record_title",
    "add_record_tags", "delete_record_tags", "get_attachments",
    "delete_attachment", "upload_file_to_record" }

(* Public methods the ToolHandlers class defines. *)
SessionMethods ==
  { "updateRecord", "updateRecordTitle", "addRecordTags", "deleteRecordTags",
    "uploadResourceFromUrl", "deleteAttachment" }

PrivilegedMethods == SessionMethods \cup { "duplicateRecord" }

ReadOnlyMethods ==
  { "getRecord", "getRecordFormatters", "exportRecord", "listGroups",
    "getSources", "getSiteInfo", "getRelatedRecords", "getTags",
    "getRegions", "searchByExtent", "getAttachments" }

HandlerMethods ==
  PrivilegedMethods \cup ReadOnlyMethods \cup { "searchRecords", "getRecordById" }

(* Tool name each privileged handler prints in its own messages. *)
ToolNameOf(m) ==
  CASE m = "duplicateRecord"       -> "duplicate_record"
    [] m = "updateRecord"          -> "update_record"
    [] m = "updateRecordTitle"     -> "update_record_title"
    [] m = "addRecordTags"         -> "add_record_tags"
    [] m = "deleteRecordTags"      -> "delete_record_tags"
    [] m = "uploadResourceFromUrl" -> "upload_resource_from_url"
    [] m = "deleteAttachment"      -> "delete_attachment"
    [] OTHER                       -> m

(* Names every object inherits from Object.prototype that a caller may send *)
(* as a tool name, and what toolHandlers[name]() does for each when called  *)
(* without a receiver.                                                      *)
InheritedNames == { "toString", "constructor", "valueOf", "__proto__" }

UnknownNames == { "no_such_tool", "upload_resource_from_url" }

RequestedNames == RegisteredNames \cup InheritedNames \cup UnknownNames

(* toolHandlers[name]: "thunk" for an own entry, "inherited" for a value    *)
(* found on the prototype chain, "undefined" otherwise.                     *)
LookupHandler(name) ==
  IF name \in RegisteredNames THEN "thunk"
  ELSE IF name \in InheritedNames THEN "inherited"
  ELSE "undefined"

(* ------------------------------ errors --------------------------------- *)
(* A thrown value: message, and the upstream response when there was one.   *)
(* data = "" stands for an absent or empty body.                            *)
PlainError(msg) ==
  [message |-> msg, hasResponse |-> FALSE, status |-> 0, data |-> ""]

HttpError(status, data) ==
  [message     |-> "Request failed with status code " \o ToString(status),
   hasResponse |-> TRUE, status |-> status, data |-> data]

NetworkError == PlainError("timeout of request exceeded")

JoinLines(parts) ==
  IF Len(parts) = 0 THEN ""
  ELSE IF Len(parts) = 1 THEN parts[1]
  ELSE parts[1] \o "\n" \o parts[2] \o
       (IF Len(parts) = 3 THEN "\n" \o parts[3] ELSE "")

(* variant: the body placed before the status line *)
errorMessageBodyFirst(error) ==
  JoinLines(
    << "Error: " \o error.message >>
    \o (IF error.hasResponse /\ error.data # ""
          THEN << error.data >> ELSE << >>)
    \o (IF error.hasResponse /\ error.status # 0
          THEN << "Status: " \o ToString(error.status) >> ELSE << >>))

(* index.ts 468-474: the diagnostic lines, falsy entries filtered out. *)
errorMessage(error) ==
  JoinLines(
    << "Error: " \o error.message >>
    \o (IF error.hasResponse /\ error.status # 0
          THEN << "Status: " \o ToString(error.status) >> ELSE << >>)
    \o (IF error.hasResponse /\ error.data # ""
          THEN << error.data >> ELSE << >>))

(* ---------------------------- envelopes -------------------------------- *)
(* What an entry point hands back.  threw records whether the invoked       *)
(* function raised.                                                          *)
NoResult == [shape |-> "none", content |-> << >>, isError |-> FALSE, threw |-> FALSE]

(* handlers.ts 31-40: one text item, no error flag. *)
formatResponse(data) ==
  [shape |-> "envelope",
   content |-> << [type |-> "text", text |-> ToString(data)] >>,
   isError |-> FALSE, threw |-> FALSE]

ErrorEnvelope(text) ==
  [shape |-> "envelope",
   content |-> << [type |-> "text", text |-> text] >>,
   isError |-> TRUE, threw |-> FALSE]

Thrown(error) ==
  [shape |-> "thrown", content |-> << >>, isError |-> FALSE, threw |-> TRUE,
   error |-> error]

(* A value returned by a function that is not a handler. *)
BareValue(kind) ==
  [shape |-> kind, content |-> << >>, isError |-> FALSE, threw |-> FALSE]

AuthRequiredText(m) ==
  "Error: Authentication required for " \o ToolNameOf(m) \o
  ". Please set CATALOGUE_USERNAME and CATALOGUE_PASSWORD in your .env file."

(* variant: the guard written with && *)
CredentialsMissingBoth(cfg) == cfg.username = "" /\ cfg.password = ""

(* handlers.ts 170: !this.config.username || !this.config.password *)
CredentialsMissing(cfg) == cfg.username = "" \/ cfg.password = ""

(* --------------------------- login handshake --------------------------- *)
(* variant: only 2xx and the redirect accepted *)
validateStatusStrict(status) == status < 300 \/ status = 302

(* handlers.ts 226, 352 *)
validateStatus(status) == status < 400 \/ status = 302

(* variant: every answered request taken as a success *)
defaultValidateStatusAny(status) == TRUE

(* axios default for every request that passes no validateStatus. *)
defaultValidateStatus(status) == status >= 200 /\ status < 300

(* A Set-Cookie string is the sequence of its ';'-separated name=value      *)
(* segments.  cookie.includes(name + "=")                                   *)
CookieIncludes(cookie, name) ==
  \E i \in 1..Len(cookie) : cookie[i].n = name

(* cookie.split(name + "=")[1].split(";")[0]: the text after the first      *)
(* occurrence of the name up to the next ';'.                               *)
CookieValue(cookie, name) ==
  LET i == CHOOSE k \in 1..Len(cookie) :
             /\ cookie[k].n = name
             /\ \A j \in 1..(k-1) : cookie[j].n # name
  IN cookie[i].v

(* The for-loop over the set-cookie array for one cookie name. *)
RECURSIVE ScanCookies(_, _, _)
ScanCookies(cookies, name, current) ==
  IF Len(cookies) = 0 THEN current
  ELSE ScanCookies(Tail(cookies), name,
         IF CookieIncludes(Head(cookies), name)
           THEN CookieValue(Head(cookies), name)
           ELSE current)

RECURSIVE JoinParts(_, _)
JoinParts(parts, sep) ==
  IF Len(parts) = 0 THEN ""
  ELSE IF Len(parts) = 1 THEN parts[1]
  ELSE parts[1] \o sep \o JoinParts(Tail(parts), sep)

(* variant: the two pushes in the other order *)
cookiePartsPrimaryFirst(gnSessionId, jsSessionId) ==
  (IF gnSessionId # "" THEN << "GNSESSIONID=" \o gnSessionId >> ELSE << >>)
  \o (IF jsSessionId # "" THEN << "JSESSIONID=" \o jsSessionId >> ELSE << >>)

(* handlers.ts 268-271, 388-391 *)
cookieParts(gnSessionId, jsSessionId) ==
  (IF jsSessionId # "" THEN << "JSESSIONID=" \o jsSessionId >> ELSE << >>)
  \o (IF gnSessionId # "" THEN << "GNSESSIONID=" \o gnSessionId >> ELSE << >>)

(* variant: a header remembered from an earlier login *)
cookieHeaderCached(gnSessionId, jsSessionId) == "JSESSIONID=j0; GNSESSIONID=g0"

cookieHeaderOf(gnSessionId, jsSessionId) ==
  JoinParts(cookieParts(gnSessionId, jsSessionId), "; ")

(* variant: the info GET sent without a cookie *)
siteInfoCookieNone(gnSessionId) == ""

(* handlers.ts 253, 374 *)
siteInfoCookie(gnSessionId) ==
  IF gnSessionId # "" THEN "GNSESSIONID=" \o gnSessionId ELSE ""

(* ------------------------- optional arguments -------------------------- *)
Some(v) == [set |-> TRUE, v |-> v]
NoStr == [set |-> FALSE, v |-> ""]
NoNum == [set |-> FALSE, v |-> 0]
NoBool == [set |-> FALSE, v |-> FALSE]

(* destructuring default: the default applies only to an absent argument *)
OrDefault(opt, d) == IF opt.set THEN opt.v ELSE d

NoArgs == [none |-> TRUE]

(* ------------------------------- state --------------------------------- *)
VARIABLES
  config,    \* HandlerConfig given to the ToolHandlers constructor
  pc,        \* per call: the await the call is suspended at
  req,       \* per call: entry point, requested name, handler method, args
  session,   \* per call: locals of the login handshake
  work,      \* per call: the other locals of the running handler
  sent,      \* per call: the outbound requests issued so far, in order
  issued,    \* per call: the session tokens the catalogue returned to it
  answers,   \* per call: status and body of the answers received, in order
  result,    \* per call: what the entry point returned or threw
  stats      \* running totals over all calls

vars == << config, pc, req, session, work, sent, issued, answers, result, stats >>

NoReq == [via |-> "none", name |-> "", method |-> "none", args |-> NoArgs]

NoSession ==
  [gnSessionId |-> "", jsSessionId |-> "", cookieHeader |-> "",
   signinStatus |-> -1, siteInfoStatus |-> -1, obtained |-> FALSE]

NoWork == [none |-> TRUE]

Usernames == { "", "editor" }
Passwords == { "", "secret" }
README_MAX == 20
MaxSearchChoices == (1..MaxCfg) \cup { README_MAX }

(* the configurations explored: every combination of credentials, and the *)
(* small search limits with the credentials left incomplete (no search      *)
(* step reads the credentials)                                              *)
Configs ==
  { cfg \in [username : Usernames, password : Passwords,
             maxSearchResults : MaxSearchChoices] :
      ~CredentialsMissing(cfg) => cfg.maxSearchResults = README_MAX }

Init ==
  /\ config \in Configs
  /\ pc = [c \in Calls |-> "idle"]
  /\ req = [c \in Calls |-> NoReq]
  /\ session = [c \in Calls |-> NoSession]
  /\ work = [c \in Calls |-> NoWork]
  /\ sent = [c \in Calls |-> << >>]
  /\ issued = [c \in Calls |-> {}]
  /\ answers = [c \in Calls |-> << >>]
  /\ result = [c \in Calls |-> NoResult]
  /\ stats = [calls |-> 0, signins |-> 0, privileged |-> 0, fallbacks |-> 0]

(* ----------------------------- requests -------------------------------- *)
(* client "fresh": the axios default export imported inside the handler;    *)
(* client "shared": this.axiosInstance created in the constructor.          *)
Request(kind, verb, client, hasCookie, cookie, timeout, params, body) ==
  [kind |-> kind, verb |-> verb, client |-> client, hasCookie |-> hasCookie,
   cookie |-> cookie, timeout |-> timeout, params |-> params, body |-> body]

(* handlers.ts 216-228, 342-354 *)
SigninRequest(cfg) ==
  Request("signin", "POST", "fresh", FALSE, "", SIGNIN_TIMEOUT, NoArgs,
          << [username |-> cfg.username, password |-> cfg.password] >>)

(* handlers.ts 250-256, 371-377 *)
SiteInfoRequest(gnSessionId) ==
  Request("siteinfo", "GET", "fresh", TRUE, siteInfoCookie(gnSessionId),
          SIGNIN_TIMEOUT, NoArgs, << >>)

(* every request made through this.axiosInstance: index.ts 258-262 *)
SharedRequest(kind, verb, params, body) ==
  Request(kind, verb, "shared", FALSE, "", CLIENT_TIMEOUT, params, body)

(* variant: the Cookie header left out *)
SessionRequestNoCookie(kind, verb, cookieHeader, params, body) ==
  Request(kind, verb, "fresh", FALSE, "", NO_TIMEOUT, params, body)

(* a request made with the fresh client and the session cookie *)
SessionRequest(kind, verb, cookieHeader, params, body) ==
  Request(kind, verb, "fresh", TRUE, cookieHeader, NO_TIMEOUT, params, body)

(* --------------------------- search shaping ---------------------------- *)
(* variant: the requested size passed through *)
actualSizeUnclamped(size, maxSize) == size

(* handlers.ts 46-47 *)
actualSizeOf(size, maxSize) == Min(size, maxSize)

(* String.prototype.toLowerCase on a string held as a sequence of letters *)
LowerChar(ch) ==
  CASE ch = "A" -> "a" [] ch = "C" -> "c" [] ch = "D" -> "d"
    [] ch = "E" -> "e" [] ch = "S" -> "s" [] OTHER -> ch

toLowerCase(str) == [i \in 1..Len(str) |-> LowerChar(str[i])]

startsWith(str, prefix) ==
  /\ Len(str) >= Len(prefix)
  /\ SubSeq(str, 1, Len(prefix)) = prefix

(* variant: only the exact word is taken as descending *)
normalizedSortOrderExact(sortOrder) ==
  IF sortOrder.set /\ toLowerCase(sortOrder.v) = << "d", "e", "s", "c" >>
    THEN "desc" ELSE "asc"

(* handlers.ts 50 *)
normalizedSortOrder(sortOrder) ==
  IF sortOrder.set /\ startsWith(toLowerCase(sortOrder.v), << "d", "e", "s", "c" >>)
    THEN "desc" ELSE "asc"

(* handlers.ts 43-58 *)
searchBody(a, maxSize) ==
  [from     |-> OrDefault(a.from, 0),
   size     |-> actualSizeOf(OrDefault(a.size, DEFAULT_SIZE), maxSize),
   hasQuery |-> OrDefault(a.query, "") # "",
   query    |-> OrDefault(a.query, ""),
   hasAggregations |-> a.bucket.set /\ a.bucket.v # "",
   bucket   |-> a.bucket.v,
   hasSort  |-> a.sortBy.set /\ a.sortBy.v # "",
   sortBy   |-> a.sortBy.v,
   order    |-> normalizedSortOrder(a.sortOrder)]

(* handlers.ts 64: response.data.hits?.total?.value || 0 *)
totalHitsOf(data) == IF data.hasTotal THEN data.total ELSE 0

(* handlers.ts 68 *)
Truncated(totalHits, actualSize) == totalHits > actualSize

(* handlers.ts 69 *)
warningText(actualSize, totalHits) ==
  "Results limited to " \o ToString(actualSize) \o " of " \o
  ToString(totalHits) \o " total. Use 'from' parameter to paginate."

(* handlers.ts 64-72: the payload handed to formatResponse *)
searchPayload(data, actualSize) ==
  [hasTotal |-> data.hasTotal, total |-> data.total, nHits |-> data.nHits,
   hasWarning |-> Truncated(totalHitsOf(data), actualSize),
   warning |-> IF Truncated(totalHitsOf(data), actualSize)
                 THEN warningText(actualSize, totalHitsOf(data)) ELSE ""]

(* ------------------------- field-update shaping ------------------------ *)
(* variant: the delete marker built around the value *)
wrappedValueDeleteKeeps(operation, value) ==
  CASE operation = "add"    -> "<gn_add>" \o value \o "</gn_add>"
    [] operation = "delete" -> "<gn_delete>" \o value \o "</gn_delete>"
    [] OTHER                -> "<gn_replace>" \o value \o "</gn_replace>"

(* handlers.ts 428-440 *)
wrappedValue(operation, value) ==
  CASE operation = "add"    -> "<gn_add>" \o value \o "</gn_add>"
    [] operation = "delete" -> "<gn_delete/>"
    [] OTHER                -> "<gn_replace>" \o value \o "</gn_replace>"

(* handlers.ts 442-447 *)
editRequest(xpath, value) == << [xpath |-> xpath, value |-> value] >>

(* variant: the older dialect assumed until detection says otherwise *)
defaultSchemaOlder == "iso19139"

(* handlers.ts 595: let schemaType = "iso19115-3" *)
defaultSchema == "iso19115-3"

(* variant: the newer dialect's markers tested first *)
detectSchemaNewerFirst(xmlContent) ==
  IF "mdb:MD_Metadata" \in xmlContent \/ "xmlns:mdb=" \in xmlContent
    THEN "iso19115-3"
  ELSE IF "gmd:MD_Metadata" \in xmlContent \/ "xmlns:gmd=" \in xmlContent
    THEN "iso19139"
  ELSE "iso19115-3"

(* handlers.ts 606-612: xmlContent is the set of markers it contains *)
detectSchema(xmlContent) ==
  IF "gmd:MD_Metadata" \in xmlContent \/ "xmlns:gmd=" \in xmlContent
    THEN "iso19139"
  ELSE IF "mdb:MD_Metadata" \in xmlContent \/ "xmlns:mdb=" \in xmlContent
    THEN "iso19115-3"
  ELSE "iso19115-3"

(* variant: one locator for both dialects *)
titleXPathNewerOnly(schemaType) ==
  "mdb:identificationInfo/*/mri:citation/cit:CI_Citation/cit:title/gco:CharacterString"

(* handlers.ts 618-625 *)
titleXPath(schemaType) ==
  IF schemaType = "iso19139"
    THEN "gmd:identificationInfo/*/gmd:citation/gmd:CI_Citation/gmd:title/gco:CharacterString"
    ELSE "mdb:identificationInfo/*/mri:citation/cit:CI_Citation/cit:title/gco:CharacterString"

(* --------------------------- duplicate shaping ------------------------- *)
(* variant: every flag the caller supplied is sent *)
duplicateParamsExplicit(a) ==
  { << "sourceUuid", a.metadataUuid >> }
  \cup (IF a.group.set /\ a.group.v # ""
          THEN { << "group", a.group.v >> } ELSE {})
  \cup (IF a.isChildOfSource.set
          THEN { << "isChildOfSource", IF a.isChildOfSource.v THEN "true" ELSE "false" >> }
          ELSE {})
  \cup (IF a.targetUuid.set /\ a.targetUuid.v # ""
          THEN { << "targetUuid", a.targetUuid.v >> } ELSE {})
  \cup (IF a.hasCategoryOfSource.set
          THEN { << "hasCategoryOfSource", IF a.hasCategoryOfSource.v THEN "true" ELSE "false" >> }
          ELSE {})

(* handlers.ts 182-196: the query parameters, as the set of key/value pairs *)
duplicateParams(a) ==
  { << "sourceUuid", a.metadataUuid >> }
  \cup (IF a.group.set /\ a.group.v # ""
          THEN { << "group", a.group.v >> } ELSE {})
  \cup (IF OrDefault(a.isChildOfSource, FALSE)
          THEN { << "isChildOfSource", "true" >> } ELSE {})
  \cup (IF a.targetUuid.set /\ a.targetUuid.v # ""
          THEN { << "targetUuid", a.targetUuid.v >> } ELSE {})
  \cup (IF ~OrDefault(a.hasCategoryOfSource, TRUE)
          THEN { << "hasCategoryOfSource", "false" >> } ELSE {})

(* handlers.ts 290: duplicateResult.uuid || duplicateResult.metadataUuid *)
newUuidOf(d) == IF d.uuid # "" THEN d.uuid ELSE d.metadataUuid

(* handlers.ts 291: id || metadataId || duplicateResult; n = 0 is falsy *)
newIdOf(d) ==
  IF d.id.kind = "number" /\ d.id.n # 0 THEN d.id
  ELSE IF d.id.kind = "string" THEN d.id
  ELSE IF d.metadataId # 0 THEN [kind |-> "number", n |-> d.metadataId]
  ELSE IF d.bare # 0 THEN [kind |-> "number", n |-> d.bare]
  ELSE [kind |-> "object", n |-> 0]

(* variant: the lookup made for every numeric id *)
NeedsLookupAnyNumber(d) == newIdOf(d).kind = "number" /\ newIdOf(d).n # 0

(* handlers.ts 296 *)
NeedsLookup(d) == newUuidOf(d) = "" /\ newIdOf(d).kind = "number" /\ newIdOf(d).n # 0

(* handlers.ts 305-308 *)
uuidFromHits(hits, current) ==
  IF Len(hits) > 0
    THEN (IF hits[1].uuid # "" THEN hits[1].uuid ELSE hits[1].id)
    ELSE current

(* a JavaScript value that is a string, or undefined when nothing was found *)
StringOrUndefined(str) ==
  IF str = "" THEN [kind |-> "undefined", v |-> ""] ELSE [kind |-> "string", v |-> str]

(* handlers.ts 314-321: the object handed to formatResponse *)
duplicatePayload(a, d, newUuid) ==
  [success |-> TRUE, message |-> "Record duplicated successfully",
   newId |-> newIdOf(d), newUuid |-> StringOrUndefined(newUuid),
   sourceUuid |-> a.metadataUuid, rawResponse |-> d]

(* handlers.ts 36: JSON.stringify leaves out the properties whose value is  *)
(* undefined; what a reader of the text gets back is the remaining object.  *)
(* optional names the properties of data that hold a string-or-undefined.   *)
JSONStringify(data, optional) ==
  [k \in { j \in DOMAIN data : j \notin optional \/ data[j].kind # "undefined" }
     |-> data[k]]

(* handlers.ts 540-552 *)
notFoundResponse(id) ==
  ErrorEnvelope(ToString(
    [error |-> "Record not found", id |-> id,
     message |-> "No record found with internal ID " \o ToString(id) \o
       ". The record may not be indexed yet (newly created records can take a few seconds to appear in search). Try again in a moment or use get_record with the UUID if you have it."]))

(* ------------------------- inputs of the calls ------------------------- *)
Chars(w) ==
  CASE w = "asc"    -> << "a", "s", "c" >>
    [] w = "desc"   -> << "d", "e", "s", "c" >>
    [] w = "DESC"   -> << "D", "E", "S", "C" >>
    [] w = "Descending" -> << "D", "e", "s", "c", "e", "n", "d", "i", "n", "g" >>
    [] w = "de"     -> << "d", "e" >>
    [] OTHER        -> << >>

PagingArgs ==
  [query : { NoStr }, from : { NoNum } \cup { Some(n) : n \in 0..MaxFrom },
   size : { NoNum, Some(README_MAX + 5) } \cup { Some(n) : n \in 0..MaxSize },
   bucket : { NoStr }, sortBy : { NoStr },
   sortOrder : { [set |-> FALSE, v |-> << >>] }]

SortArgs ==
  [query : { Some("water") }, from : { NoNum }, size : { NoNum },
   bucket : { NoStr, Some("tag") }, sortBy : { NoStr, Some(""), Some("title") },
   sortOrder : { [set |-> FALSE, v |-> << >>] }
               \cup { Some(Chars(w)) : w \in { "asc", "desc", "DESC", "Descending", "de", "" } }]

SearchArgs == PagingArgs \cup SortArgs

UpdateArgs ==
  [uuid : { "rec-1" }, xpath : { "gmd:abstract" }, value : { "text" },
   operation : { NoStr, Some("add"), Some("delete"), Some("replace"), Some("merge") },
   updateDateStamp : { NoBool }]
  \cup
  [uuid : { "rec-1" }, xpath : { "gmd:abstract" }, value : { "<b>x</b>" },
   operation : { Some("delete"), Some("") }, updateDateStamp : { Some(FALSE) }]

DupArgs(group, isChildOfSource, targetUuid, hasCategoryOfSource) ==
  [metadataUuid |-> "rec-1", group |-> group, isChildOfSource |-> isChildOfSource,
   targetUuid |-> targetUuid, hasCategoryOfSource |-> hasCategoryOfSource]

DuplicateArgs ==
  { DupArgs(NoStr, NoBool, NoStr, NoBool),
    DupArgs(Some(""), Some(FALSE), Some(""), Some(TRUE)),
    DupArgs(Some("2"), Some(TRUE), Some("rec-9"), Some(FALSE)) }

ArgsOf(m) ==
  CASE m = "searchRecords"         -> SearchArgs
    [] m = "updateRecord"          -> UpdateArgs
    [] m = "duplicateRecord"       -> DuplicateArgs
    [] m = "updateRecordTitle"     -> { [uuid |-> "rec-1", title |-> "New title"] }
    [] m = "addRecordTags"         -> { [uuid |-> "rec-1", tags |-> << 7 >>] }
    [] m = "deleteRecordTags"      -> { [uuid |-> "rec-1", tags |-> << 7 >>] }
    [] m = "uploadResourceFromUrl" ->
         { [metadataUuid |-> "rec-1", url |-> "http://files/a.pdf",
            visibility |-> NoStr, approved |-> NoBool] }
    [] m = "deleteAttachment"      ->
         { [metadataUuid |-> "rec-1", resourceId |-> "a.pdf", approved |-> NoBool] }
    [] m = "getRecordById"         -> { [id |-> 42] }
    [] OTHER                       -> { NoArgs }

(* ----------------------- answers of the catalogue ---------------------- *)
NoResponse == 0
SigninStatuses == { 200, 302, 399, 400, 500, NoResponse }
Statuses == { 200, 403, NoResponse }

Seg(n, v) == [n |-> n, v |-> v]

(* Set-Cookie arrays a sign-in answer may carry; k makes the tokens fresh. *)
SigninCookies(k) ==
  LET g == "g" \o ToString(k)
      j == "j" \o ToString(k)
  IN { << >>,
       << << Seg("GNSESSIONID", g), Seg("Path", "/"), Seg("HttpOnly", "") >> >>,
       << << Seg("GNSESSIONID", g), Seg("Path", "/") >>,
          << Seg("JSESSIONID", j), Seg("Path", "/catalogue") >> >>,
       << << Seg("JSESSIONID", j) >> >>,
       << << Seg("GNSESSIONID", ""), Seg("Max-Age", "0") >> >> }

SiteInfoCookies(k) ==
  { << >>,
    << << Seg("XSRF-TOKEN", "x") >>,
       << Seg("JSESSIONID", "s" \o ToString(k)), Seg("Path", "/catalogue") >> >> }

(* the named tokens with a value that an answer carries *)
TokensIn(cookies) ==
  { t \in UNION { { cookies[i][p] : p \in 1..Len(cookies[i]) } : i \in 1..Len(cookies) } :
      t.n \in { "GNSESSIONID", "JSESSIONID" } /\ t.v # "" }

ErrorBodies == { "", ToString([message |-> "Forbidden"]) }

(* the hits array of a search answer: size-th page of total matches *)
UpstreamHits(from, size, total) == Max(0, Min(size, total - from))

TotalChoices == (0..MaxTotal) \cup { DEFAULT_SIZE + 1, README_MAX + 1 }

NoId == [kind |-> "none", n |-> 0]
Num(n) == [kind |-> "number", n |-> n]

DupData(uuid, metadataUuid, id, metadataId, bare, isNull) ==
  [uuid |-> uuid, metadataUuid |-> metadataUuid, id |-> id,
   metadataId |-> metadataId, bare |-> bare, isNull |-> isNull]

DuplicateAnswers ==
  { DupData("new-uuid", "", NoId, 0, 0, FALSE),
    DupData("", "new-uuid", NoId, 0, 0, FALSE),
    DupData("", "", Num(42), 0, 0, FALSE),
    DupData("new-uuid", "", Num(42), 0, 0, FALSE),
    DupData("", "", NoId, 42, 0, FALSE),
    DupData("", "", NoId, 0, 42, FALSE),
    DupData("", "", [kind |-> "string", n |-> 42], 0, 0, FALSE),
    DupData("", "", NoId, 0, 0, FALSE),
    DupData("", "", NoId, 0, 0, TRUE) }

Hit(uuid, id) == [uuid |-> uuid, id |-> id]
HitsChoices == { << >>, << Hit("found-uuid", "42") >>, << Hit("", "42") >> }

XmlContents ==
  { {}, { "gmd:MD_Metadata", "xmlns:gmd=" }, { "xmlns:gmd=" },
    { "mdb:MD_Metadata", "xmlns:mdb=" }, { "gmd:MD_Metadata", "xmlns:mdb=" } }

(* --------------------------- building blocks --------------------------- *)
NumKind(rs, kind) == Cardinality({ i \in 1..Len(rs) : rs[i].kind = kind })

(* One step of call c: new position, locals, requests issued, result. *)
Goto(c, p, s, w, rs, r) ==
  /\ pc' = [pc EXCEPT ![c] = p]
  /\ session' = [session EXCEPT ![c] = s]
  /\ work' = [work EXCEPT ![c] = w]
  /\ sent' = [sent EXCEPT ![c] = @ \o rs]
  /\ result' = [result EXCEPT ![c] = r]

(* an answer, or the lack of one, is taken off the wire by call c *)
Answered(c, status, body) ==
  answers' = [answers EXCEPT ![c] =
                Append(@, [status |-> status,
                           body |-> IF status = NoResponse THEN "" ELSE body])]

(* running totals: calls started, privileged calls started with credentials *)
(* configured, getRecordById fallbacks to the authenticated fetch, sign-in   *)
(* POSTs issued                                                              *)
Tally(c, started, privileged, fallbacks) ==
  stats' = [calls |-> stats.calls + started,
            privileged |-> stats.privileged + privileged,
            fallbacks |-> stats.fallbacks + fallbacks,
            signins |-> stats.signins +
                        (NumKind(sent'[c], "signin") - NumKind(sent[c], "signin"))]

(* index.ts 467-482: what the entry point hands back when the handler      *)
(* throws; a handler called directly lets the error escape.                 *)
Caught(v, error) ==
  IF v = "dispatch"
    THEN [ErrorEnvelope(errorMessage(error)) EXCEPT !.threw = TRUE]
    ELSE Thrown(error)

(* variant: the upstream body not kept on the error *)
FailureOfNoBody(status, body) ==
  IF status = NoResponse THEN NetworkError ELSE HttpError(status, "")

(* the error axios rejects with: error.response holds status and body *)
FailureOf(status, body) ==
  IF status = NoResponse THEN NetworkError ELSE HttpError(status, body)

(* the privileged request of each handler, sent with the session cookie *)
PrivilegedRequest(m, a, w, cookieHeader) ==
  CASE m = "duplicateRecord" ->
         SessionRequest("privileged", "PUT", cookieHeader, duplicateParams(a), << >>)
    [] m = "updateRecord" ->
         SessionRequest("privileged", "PUT", cookieHeader,
           [uuids |-> a.uuid,
            updateDateStamp |-> IF OrDefault(a.updateDateStamp, TRUE) THEN "true" ELSE "false"],
           editRequest(a.xpath, wrappedValue(OrDefault(a.operation, "replace"), a.value)))
    [] m = "updateRecordTitle" ->
         SessionRequest("privileged", "PUT", cookieHeader,
           [uuids |-> a.uuid, updateDateStamp |-> "true"],
           editRequest(titleXPath(w.schemaType), "<gn_replace>" \o a.title \o "</gn_replace>"))
    [] m = "addRecordTags" ->
         SessionRequest("privileged", "PUT", cookieHeader, [clear |-> FALSE], a.tags)
    [] m = "deleteRecordTags" ->
         SessionRequest("privileged", "DELETE", cookieHeader, NoArgs, a.tags)
    [] m = "uploadResourceFromUrl" ->
         SessionRequest("privileged", "PUT", cookieHeader,
           [url |-> a.url, visibility |-> OrDefault(a.visibility, "PUBLIC"),
            approved |-> OrDefault(a.approved, FALSE)], << >>)
    [] m = "deleteAttachment" ->
         SessionRequest("privileged", "DELETE", cookieHeader,
           [approved |-> OrDefault(a.approved, FALSE)], << >>)

(* the success payload of the handlers that end with the privileged call *)
successPayload(m, a, w) ==
  CASE m = "updateRecordTitle" ->
         [success |-> TRUE, message |-> "Title of record " \o a.uuid \o " updated",
          schema |-> w.schemaType]
    [] m = "deleteAttachment" ->
         [success |-> TRUE, message |-> "Attachment deleted"]
    [] OTHER ->
         [success |-> TRUE, message |-> ToolNameOf(m) \o " done", details |-> "ok"]

(* handlers.ts 487-499 *)
byIdSearchBody(id) ==
  [should |-> << [field |-> "id", term |-> ToString(id), raw |-> TRUE],
                 [field |-> "id.keyword", term |-> ToString(id), raw |-> FALSE],
                 [field |-> "_id", term |-> ToString(id), raw |-> FALSE] >>,
   minimum_should_match |-> 1, size |-> 1]

(* handlers.ts 300-303 *)
lookupBody(newId) == [term |-> [field |-> "_id", value |-> ToString(newId.n)], size |-> 1]

ReadOnlyVerb(m) == IF m = "searchByExtent" THEN "POST" ELSE "GET"

(* variant: the header kept on the handler object by whichever call logged *)
(* in before                                                                *)
SessionCookieShared(c, s) ==
  LET others == { d \in Calls \ { c } : session[d].obtained }
  IN IF others = {} THEN s.cookieHeader
     ELSE session[CHOOSE d \in others : TRUE].cookieHeader

(* handlers.ts 424, 591: the cookieHeader the call's own                    *)
(* getAuthenticatedSession returned, a local of the running handler         *)
SessionCookie(c, s) == s.cookieHeader

(* What the handler does once the handshake has produced s. *)
AfterSession(c, s) ==
  LET m == req[c].method
      a == req[c].args
  IN CASE m = "updateRecordTitle" ->
            Goto(c, "export", s, [schemaType |-> defaultSchema],
                 << SessionRequest("export", "GET", SessionCookie(c, s), NoArgs, << >>) >>,
                 NoResult)
       [] m = "getRecordById" ->
            Goto(c, "byid_direct", s, work[c],
                 << SessionRequest("direct", "GET", SessionCookie(c, s), NoArgs, << >>) >>,
                 NoResult)
       [] OTHER ->
            Goto(c, "privileged", s, work[c],
                 << PrivilegedRequest(m, a, work[c], SessionCookie(c, s)) >>, NoResult)

(* variant: a failed handshake request escapes from every handler *)
HandshakeFailedEscapes(c, s, error) ==
  Goto(c, "returned", s, work[c], << >>, Caught(req[c].via, error))

(* A failed handshake request: getRecordById swallows it (handlers.ts       *)
(* 535-552); every other handler lets it escape.                            *)
HandshakeFailed(c, s, error) ==
  IF req[c].method = "getRecordById"
    THEN Goto(c, "returned", s, work[c], << >>, notFoundResponse(req[c].args.id))
    ELSE Goto(c, "returned", s, work[c], << >>, Caught(req[c].via, error))

(* ------------------------------ actions -------------------------------- *)
(* The client sends one call at a time and waits for its answer. *)
CanStart(c) ==
  /\ pc[c] = "idle"
  /\ c = stats.calls + 1
  /\ \A d \in Calls \ { c } : pc[d] \in { "idle", "closed" }

(* The handler method m from its first line to its first await or return.  *)
EnterHandler(c, v, name, m, a) ==
  /\ req' = [req EXCEPT ![c] = [via |-> v, name |-> name, method |-> m, args |-> a]]
  /\ issued' = issued
  /\ answers' = answers
  /\ CASE m \in PrivilegedMethods /\ CredentialsMissing(config) ->
            Goto(c, "returned", NoSession, NoWork, << >>,
                 ErrorEnvelope(AuthRequiredText(m)))
       [] m \in PrivilegedMethods /\ ~CredentialsMissing(config) ->
            Goto(c, "signin", NoSession, NoWork, << SigninRequest(config) >>, NoResult)
       [] m = "searchRecords" ->
            Goto(c, "search", NoSession,
                 [actualSize |-> actualSizeOf(OrDefault(a.size, DEFAULT_SIZE),
                                              config.maxSearchResults)],
                 << SharedRequest("search", "POST", NoArgs,
                                  << searchBody(a, config.maxSearchResults) >>) >>,
                 NoResult)
       [] m = "getRecordById" ->
            Goto(c, "byid_search", NoSession, NoWork,
                 << SharedRequest("byid_search", "POST", NoArgs,
                                  << byIdSearchBody(a.id) >>) >>, NoResult)
       [] m \in ReadOnlyMethods ->
            Goto(c, "readonly", NoSession, NoWork,
                 << SharedRequest("readonly", ReadOnlyVerb(m), NoArgs, << >>) >>,
                 NoResult)
  /\ Tally(c, 1, IF m \in PrivilegedMethods /\ ~CredentialsMissing(config) THEN 1 ELSE 0, 0)

(* the public ToolHandlers methods that no entry of the table calls *)
UnroutedMethods == HandlerMethods \ { toolHandlers[n] : n \in RegisteredNames }

(* a public ToolHandlers method called directly *)
CallHandler(c, m, a) ==
  /\ CanStart(c)
  /\ EnterHandler(c, "direct", ToolNameOf(m), m, a)
  /\ UNCHANGED config

(* index.ts 461-466 for a name that is no own entry of the table: the       *)
(* outcome of calling the inherited value without a receiver.               *)
InheritedOutcome(name) ==
  CASE name = "toString"    -> BareValue("string")
    [] name = "constructor" -> BareValue("object")
    [] name = "valueOf"     ->
         Caught("dispatch", PlainError("Cannot convert undefined or null to object"))
    [] OTHER                ->
         Caught("dispatch", PlainError("handler is not a function"))

(* index.ts 461-466: a name that reaches no ToolHandlers method *)
NoHandlerOutcome(name) ==
  CASE LookupHandler(name) = "undefined" ->
         Caught("dispatch", PlainError("Unknown tool: " \o name))
    [] LookupHandler(name) = "inherited" -> InheritedOutcome(name)
    [] OTHER ->
         Caught("dispatch",
           PlainError("this.handlers." \o toolHandlers[name] \o " is not a function"))

ReachesHandler(name) ==
  LookupHandler(name) = "thunk" /\ toolHandlers[name] \in HandlerMethods

(* index.ts 432-483 up to the handler's first await *)
handleToolCall(c, name, a) ==
  /\ CanStart(c)
  /\ UNCHANGED config
  /\ IF ReachesHandler(name)
       THEN EnterHandler(c, "dispatch", name, toolHandlers[name], a)
       ELSE /\ req' = [req EXCEPT ![c] = [via |-> "dispatch", name |-> name,
                                          method |-> "none", args |-> NoArgs]]
            /\ issued' = issued
            /\ answers' = answers
            /\ Goto(c, "returned", NoSession, NoWork, << >>, NoHandlerOutcome(name))
            /\ Tally(c, 1, 0, 0)

(* handlers.ts 216-246 / 342-367: the sign-in answer arrives *)
SigninResponse(c, status, cookies, body) ==
  /\ pc[c] = "signin"
  /\ Answered(c, status, body)
  /\ UNCHANGED << config, req >>
  /\ LET s0 == [session[c] EXCEPT !.signinStatus = status]
     IN IF status = NoResponse \/ ~validateStatus(status)
          THEN /\ cookies = << >>
               /\ issued' = issued
               /\ HandshakeFailed(c, s0, FailureOf(status, body))
          ELSE LET gn == ScanCookies(cookies, "GNSESSIONID", "")
                   js == ScanCookies(cookies, "JSESSIONID", "")
                   s1 == [s0 EXCEPT !.gnSessionId = gn, !.jsSessionId = js]
               IN /\ body = ""
                  /\ issued' = [issued EXCEPT ![c] = @ \cup TokensIn(cookies)]
                  /\ IF js = ""
                       THEN Goto(c, "siteinfo", s1, work[c],
                                 << SiteInfoRequest(gn) >>, NoResult)
                       ELSE AfterSession(c, [s1 EXCEPT
                              !.cookieHeader = cookieHeaderOf(gn, js),
                              !.obtained = TRUE])
  /\ Tally(c, 0, 0, 0)

(* handlers.ts 250-271 / 371-395: the /site/info answer arrives *)
SiteInfoResponse(c, status, cookies, body) ==
  /\ pc[c] = "siteinfo"
  /\ Answered(c, status, body)
  /\ UNCHANGED << config, req >>
  /\ IF status = NoResponse \/ ~defaultValidateStatus(status)
       THEN /\ cookies = << >>
            /\ issued' = issued
            /\ HandshakeFailed(c, [session[c] EXCEPT !.siteInfoStatus = status],
                               FailureOf(status, body))
       ELSE LET gn == session[c].gnSessionId
                js == ScanCookies(cookies, "JSESSIONID", session[c].jsSessionId)
            IN /\ body = ""
               /\ issued' = [issued EXCEPT ![c] = @ \cup TokensIn(cookies)]
               /\ AfterSession(c, [session[c] EXCEPT
                    !.siteInfoStatus = status,
                    !.jsSessionId = js,
                    !.cookieHeader = cookieHeaderOf(gn, js),
                    !.obtained = TRUE])
  /\ Tally(c, 0, 0, 0)

(* handlers.ts 596-652: the export answer arrives, the batch edit is sent *)
ExportResponse(c, status, xmlContent) ==
  /\ pc[c] = "export"
  /\ Answered(c, status, "")
  /\ UNCHANGED << config, req, issued >>
  /\ LET ok == status # NoResponse /\ defaultValidateStatus(status)
         w == [schemaType |-> IF ok THEN detectSchema(xmlContent) ELSE work[c].schemaType,
               fetched |-> ok, xmlContent |-> xmlContent]
     IN /\ ~ok => xmlContent = {}
        /\ Goto(c, "privileged", session[c], w,
                << PrivilegedRequest(req[c].method, req[c].args, w,
                                     SessionCookie(c, session[c])) >>, NoResult)
  /\ Tally(c, 0, 0, 0)

(* the answer to the privileged request arrives *)
PrivilegedResponse(c, status, body, d) ==
  /\ pc[c] = "privileged"
  /\ Answered(c, status, body)
  /\ UNCHANGED << config, req, issued >>
  /\ LET m == req[c].method
         a == req[c].args
         ok == status # NoResponse /\ defaultValidateStatus(status)
     IN IF ~ok
          THEN /\ d = DupData("", "", NoId, 0, 0, FALSE)
               /\ Goto(c, "returned", session[c], work[c], << >>,
                       Caught(req[c].via, FailureOf(status, body)))
        ELSE IF m # "duplicateRecord"
          THEN /\ d = DupData("", "", NoId, 0, 0, FALSE)
               /\ body = ""
               /\ Goto(c, "returned", session[c], work[c], << >>,
                       formatResponse(successPayload(m, a, work[c])))
        ELSE /\ body = ""
             /\ IF d.isNull
                  THEN Goto(c, "returned", session[c], work[c], << >>,
                            Caught(req[c].via,
                              PlainError("Cannot read properties of null (reading 'uuid')")))
                ELSE IF NeedsLookup(d)
                  THEN Goto(c, "lookup", session[c], [duplicateResult |-> d],
                            << SharedRequest("lookup", "POST", NoArgs,
                                             << lookupBody(newIdOf(d)) >>) >>, NoResult)
                ELSE Goto(c, "returned", session[c],
                          [duplicateResult |-> d,
                           payload |-> JSONStringify(duplicatePayload(a, d, newUuidOf(d)), { "newUuid" })],
                          << >>,
                          formatResponse(JSONStringify(duplicatePayload(a, d, newUuidOf(d)), { "newUuid" })))
  /\ Tally(c, 0, 0, 0)

(* variant: a failed lookup rethrown *)
lookupOutcomeRethrows(v, ok, payload, lookupError) ==
  IF ok THEN formatResponse(payload) ELSE Caught(v, lookupError)

(* handlers.ts 309-321: catch (lookupError) only logs; the handler goes on  *)
(* to return the payload                                                    *)
lookupOutcome(v, ok, payload, lookupError) == formatResponse(payload)

(* handlers.ts 304-321: the UUID lookup answer arrives *)
LookupResponse(c, status, hits) ==
  /\ pc[c] = "lookup"
  /\ Answered(c, status, "")
  /\ UNCHANGED << config, req, issued >>
  /\ LET ok == status # NoResponse /\ defaultValidateStatus(status)
         d == work[c].duplicateResult
         p == JSONStringify(duplicatePayload(req[c].args, d,
                IF ok THEN uuidFromHits(hits, newUuidOf(d)) ELSE newUuidOf(d)),
                { "newUuid" })
     IN /\ ~ok => hits = << >>
        /\ Goto(c, "returned", session[c],
                [duplicateResult |-> d, payload |-> p, lookupOk |-> ok,
                 hits |-> hits],
                << >>, lookupOutcome(req[c].via, ok, p, FailureOf(status, "")))
  /\ Tally(c, 0, 0, 0)

(* handlers.ts 62-72: the search answer arrives *)
SearchResponse(c, status, body, hasTotal, total) ==
  /\ pc[c] = "search"
  /\ Answered(c, status, body)
  /\ UNCHANGED << config, req, issued >>
  /\ LET ok == status # NoResponse /\ defaultValidateStatus(status)
         q == sent[c][1].body[1]
         data == [hasTotal |-> hasTotal, total |-> total,
                  nHits |-> UpstreamHits(q.from, q.size, total)]
     IN IF ~ok
          THEN /\ hasTotal /\ total = 0
               /\ Goto(c, "returned", session[c], work[c], << >>,
                       Caught(req[c].via, FailureOf(status, body)))
          ELSE /\ body = ""
               /\ ~hasTotal => total = 0
               /\ Goto(c, "returned", session[c],
                       [actualSize |-> work[c].actualSize,
                        response |-> searchPayload(data, work[c].actualSize)],
                       << >>,
                       formatResponse(searchPayload(data, work[c].actualSize)))
  /\ Tally(c, 0, 0, 0)

(* handlers.ts 504-569: the multi-field search answer arrives *)
ByIdSearchResponse(c, status, body, hits) ==
  /\ pc[c] = "byid_search"
  /\ Answered(c, status, body)
  /\ UNCHANGED << config, req, issued >>
  /\ LET ok == status # NoResponse /\ defaultValidateStatus(status)
         id == req[c].args.id
     IN IF ~ok
          THEN /\ hits = << >>
               /\ Goto(c, "returned", session[c], work[c], << >>,
                       Caught(req[c].via, FailureOf(status, body)))
        ELSE IF Len(hits) > 0
          THEN /\ body = ""
               /\ Goto(c, "returned", session[c], [searchHits |-> Len(hits)], << >>,
                       formatResponse([id |-> id,
                         uuid |-> IF hits[1].uuid # "" THEN hits[1].uuid ELSE hits[1].id]))
        ELSE /\ body = ""
             /\ IF ~CredentialsMissing(config)
                  THEN Goto(c, "signin", session[c],
                            [searchHits |-> 0, directOk |-> FALSE],
                            << SigninRequest(config) >>, NoResult)
                  ELSE Goto(c, "returned", session[c],
                            [searchHits |-> 0, directOk |-> FALSE], << >>,
                            notFoundResponse(id))
  /\ Tally(c, 0, 0, IF pc'[c] = "signin" THEN 1 ELSE 0)

(* handlers.ts 519-552: the direct record fetch answer arrives *)
ByIdDirectResponse(c, status, uuid) ==
  /\ pc[c] = "byid_direct"
  /\ Answered(c, status, "")
  /\ UNCHANGED << config, req, issued >>
  /\ LET ok == status # NoResponse /\ defaultValidateStatus(status)
         id == req[c].args.id
     IN IF ok
          THEN Goto(c, "returned", session[c], [work[c] EXCEPT !.directOk = TRUE],
                    << >>, formatResponse([id |-> id, uuid |-> uuid]))
          ELSE /\ uuid = ""
               /\ Goto(c, "returned", session[c], work[c], << >>, notFoundResponse(id))
  /\ Tally(c, 0, 0, 0)

(* handlers.ts 75-166, 819-840: the answer to a read-only request arrives *)
ReadOnlyResponse(c, status, body) ==
  /\ pc[c] = "readonly"
  /\ Answered(c, status, body)
  /\ UNCHANGED << config, req, issued >>
  /\ LET ok == status # NoResponse /\ defaultValidateStatus(status)
     IN IF ok
          THEN /\ body = ""
               /\ Goto(c, "returned", session[c], work[c], << >>,
                       formatResponse([data |-> req[c].method]))
          ELSE Goto(c, "returned", session[c], work[c], << >>,
                    Caught(req[c].via, FailureOf(status, body)))
  /\ Tally(c, 0, 0, 0)

(* index.ts 320-323: the result goes back to the protocol layer; the       *)
(* call's locals are gone.                                                  *)
Deliver(c) ==
  /\ pc[c] = "returned"
  /\ pc' = [pc EXCEPT ![c] = "closed"]
  /\ req' = [req EXCEPT ![c] = NoReq]
  /\ session' = [session EXCEPT ![c] = NoSession]
  /\ work' = [work EXCEPT ![c] = NoWork]
  /\ sent' = [sent EXCEPT ![c] = << >>]
  /\ issued' = [issued EXCEPT ![c] = {}]
  /\ answers' = [answers EXCEPT ![c] = << >>]
  /\ result' = [result EXCEPT ![c] = NoResult]
  /\ UNCHANGED << config, stats >>

Next ==
  \E c \in Calls :
    \/ \E name \in RequestedNames :
         \E a \in (IF ReachesHandler(name) THEN ArgsOf(toolHandlers[name]) ELSE { NoArgs }) :
           handleToolCall(c, name, a)
    \/ \E m \in UnroutedMethods : \E a \in ArgsOf(m) : CallHandler(c, m, a)
    \/ \E status \in SigninStatuses, body \in ErrorBodies,
          cookies \in SigninCookies(stats.signins) :
         SigninResponse(c, status, cookies, body)
    \/ \E status \in Statuses, body \in ErrorBodies,
          cookies \in SiteInfoCookies(stats.signins) :
         SiteInfoResponse(c, status, cookies, body)
    \/ \E status \in Statuses, xmlContent \in XmlContents :
         ExportResponse(c, status, xmlContent)
    \/ \E status \in Statuses, body \in ErrorBodies, d \in DuplicateAnswers :
         PrivilegedResponse(c, status, body, d)
    \/ \E status \in Statuses, hits \in HitsChoices : LookupResponse(c, status, hits)
    \/ \E status \in Statuses, body \in ErrorBodies, hasTotal \in BOOLEAN,
          total \in TotalChoices :
         SearchResponse(c, status, body, hasTotal, total)
    \/ \E status \in Statuses, body \in ErrorBodies, hits \in HitsChoices :
         ByIdSearchResponse(c, status, body, hits)
    \/ \E status \in Statuses, uuid \in { "", "direct-uuid" } :
         ByIdDirectResponse(c, status, uuid)
    \/ \E status \in Statuses, body \in ErrorBodies : ReadOnlyResponse(c, status, body)
    \/ Deliver(c)

Spec == Init /\ [][Next]_vars

(* ---------------- calls running concurrently (index.ts 320-323) --------- *)
(* The request handler is async: a second call may enter while the first is *)
(* suspended at an await.  Privileged tools on one ToolHandlers object, the *)
(* credentials configured; the catalogue hands every sign-in its own tokens.*)
ConcurrentMethods == { "addRecordTags", "deleteRecordTags" }

InitConcurrent ==
  /\ config = [username |-> "editor", password |-> "secret",
               maxSearchResults |-> README_MAX]
  /\ pc = [c \in Calls |-> "idle"]
  /\ req = [c \in Calls |-> NoReq]
  /\ session = [c \in Calls |-> NoSession]
  /\ work = [c \in Calls |-> NoWork]
  /\ sent = [c \in Calls |-> << >>]
  /\ issued = [c \in Calls |-> {}]
  /\ answers = [c \in Calls |-> << >>]
  /\ result = [c \in Calls |-> NoResult]
  /\ stats = [calls |-> 0, signins |-> 0, privileged |-> 0, fallbacks |-> 0]

(* a call enters its handler while earlier calls are still in flight *)
StartConcurrent(c, m, a) ==
  /\ pc[c] = "idle"
  /\ c = stats.calls + 1
  /\ UNCHANGED config
  /\ EnterHandler(c, "dispatch", ToolNameOf(m), m, a)

NextConcurrent ==
  \E c \in Calls :
    \/ \E m \in ConcurrentMethods : \E a \in ArgsOf(m) : StartConcurrent(c, m, a)
    \/ \E status \in { 302, 400 }, cookies \in SigninCookies(c) :
         SigninResponse(c, status, cookies, "")
    \/ \E status \in { 200, NoResponse }, cookies \in SiteInfoCookies(c) :
         SiteInfoResponse(c, status, cookies, "")
    \/ \E status \in { 200, 403 } :
         PrivilegedResponse(c, status, "", DupData("", "", NoId, 0, 0, FALSE))

SpecConcurrent == InitConcurrent /\ [][NextConcurrent]_vars

(* ======================================================================= *)
(*                              properties                                  *)
(* ======================================================================= *)
Active(c) == pc[c] \notin { "idle", "closed" }

TextOf(c) == result[c].content[1].text

IsErrorResult(c) ==
  \/ result[c].shape = "envelope" /\ result[c].isError
  \/ req[c].via = "direct" /\ result[c].shape = "thrown"

CookieRequests(c) ==
  { i \in 1..Len(sent[c]) :
      sent[c][i].hasCookie /\ sent[c][i].kind \notin { "signin", "siteinfo" } }

(* C1: a privileged handler entered while the configured username or the   *)
(* configured password is empty has returned an error envelope with the     *)
(* authentication-required message, has not thrown, and has issued no       *)
(* outbound request.                                                        *)
C1_MissingCredentialsShortCircuit ==
  \A c \in Calls :
    ( /\ Active(c)
      /\ req[c].method \in PrivilegedMethods
      /\ (config.username = "" \/ config.password = "") )
    => /\ pc[c] = "returned"
       /\ sent[c] = << >>
       /\ result[c].shape = "envelope"
       /\ result[c].isError
       /\ ~result[c].threw
       /\ Len(result[c].content) = 1
       /\ TextOf(c) = "Error: Authentication required for " \o ToolNameOf(req[c].method)
            \o ". Please set CATALOGUE_USERNAME and CATALOGUE_PASSWORD in your .env file."

C1_Witness ==
  \E c \in Calls :
    /\ pc[c] = "returned"
    /\ req[c].method = "uploadResourceFromUrl"
    /\ config.username # "" /\ config.password = ""
    /\ result[c].isError /\ sent[c] = << >>

(* C2: a privileged catalogue request is sent only by a call whose login    *)
(* handshake obtained the primary session token GNSESSIONID.                *)
C2_PrivilegedNeedsPrimaryToken ==
  \A c \in Calls :
    (\E i \in 1..Len(sent[c]) : sent[c][i].kind = "privileged")
    => \E t \in issued[c] : t.n = "GNSESSIONID"

(* C3: the status of the sign-in answer decides the handshake: below 400    *)
(* the call goes on to its next request; otherwise the sign-in POST is the  *)
(* call's last request and the call has ended with an error result.         *)
C3_SigninStatusDecides ==
  \A c \in Calls :
    ( /\ Active(c)
      /\ req[c].method \in PrivilegedMethods
      /\ session[c].signinStatus # -1 )
    => IF session[c].signinStatus # NoResponse /\ session[c].signinStatus < 400
         THEN /\ Len(sent[c]) >= 2
              /\ sent[c][1].kind = "signin"
              /\ sent[c][2].kind \in { "siteinfo", "privileged", "export" }
         ELSE /\ Len(sent[c]) = 1
              /\ sent[c][1].kind = "signin"
              /\ pc[c] = "returned"
              /\ IsErrorResult(c)

C3_Witness ==
  \E c \in Calls :
    /\ req[c].method = "addRecordTags" /\ req[c].via = "dispatch"
    /\ session[c].signinStatus = 400
    /\ pc[c] = "returned" /\ result[c].isError /\ Len(sent[c]) = 1

(* C4 as stated: the Cookie header joins the non-empty tokens with "; ",    *)
(* GNSESSIONID before JSESSIONID when both were obtained.                   *)
C4_PrimaryTokenFirst ==
  \A c \in Calls :
    session[c].obtained =>
      LET gn == session[c].gnSessionId
          js == session[c].jsSessionId
      IN session[c].cookieHeader =
           (CASE gn = "" /\ js = "" -> ""
              [] gn # "" /\ js = "" -> "GNSESSIONID=" \o gn
              [] gn = "" /\ js # "" -> "JSESSIONID=" \o js
              [] OTHER -> "GNSESSIONID=" \o gn \o "; " \o "JSESSIONID=" \o js)

(* C4 amended: the Cookie header joins the non-empty tokens with "; ",      *)
(* JSESSIONID before GNSESSIONID when both were obtained, and that header   *)
(* is the one every later request of the call carries.                      *)
C4_SecondaryTokenFirst ==
  \A c \in Calls :
    session[c].obtained =>
      LET gn == session[c].gnSessionId
          js == session[c].jsSessionId
          expected ==
            CASE gn = "" /\ js = "" -> ""
              [] gn # "" /\ js = "" -> "GNSESSIONID=" \o gn
              [] gn = "" /\ js # "" -> "JSESSIONID=" \o js
              [] OTHER -> "JSESSIONID=" \o js \o "; " \o "GNSESSIONID=" \o gn
      IN /\ session[c].cookieHeader = expected
         /\ \A i \in CookieRequests(c) : sent[c][i].cookie = expected

C4_Witness ==
  \E c \in Calls :
    /\ session[c].obtained
    /\ session[c].gnSessionId # "" /\ session[c].jsSessionId # ""
    /\ \E i \in 1..Len(sent[c]) : sent[c][i].kind = "privileged"

(* the Cookie headers that can be composed of tokens the catalogue         *)
(* returned to call c                                                       *)
AllowedCookies(c) ==
  LET parts == { t.n \o "=" \o t.v : t \in issued[c] }
  IN { "" } \cup parts \cup { q[1] \o "; " \o q[2] : q \in { r \in parts \X parts : r[1] # r[2] } }

C5_State ==
  /\ stats.signins = stats.privileged + stats.fallbacks
  /\ \A c \in Calls :
       ( /\ Active(c)
         /\ req[c].method \in PrivilegedMethods
         /\ config.username # "" /\ config.password # "" )
       => /\ Len(sent[c]) >= 1
          /\ sent[c][1].kind = "signin"
          /\ NumKind(sent[c], "signin") = 1
          /\ \A i \in CookieRequests(c) : sent[c][i].cookie \in AllowedCookies(c)

(* C5: every privileged call with credentials configured issues exactly    *)
(* one sign-in POST, as its first request, so N such calls issue N sign-in  *)
(* POSTs; the Cookie header of its later requests is composed only of       *)
(* tokens returned to that same call; no step changes the configuration.    *)
C5_NoSessionReuse == [](C5_State) /\ [][config' = config]_vars

C5_Witness ==
  \E c \in Calls :
    /\ stats.privileged = 2 /\ stats.signins = 2
    /\ req[c].method \in PrivilegedMethods
    /\ \E i \in CookieRequests(c) : sent[c][i].cookie # ""

(* C6 as stated: once the handshake is complete, exactly one request of a   *)
(* privileged call carries the session Cookie header, for every privileged  *)
(* tool.                                                                    *)
C6_ExactlyOneDecorated ==
  \A c \in Calls :
    ( /\ req[c].method \in PrivilegedMethods
      /\ session[c].obtained
      /\ pc[c] \in { "privileged", "lookup", "returned" } )
    => Cardinality(CookieRequests(c)) = 1

C6_State ==
  \A c \in Calls :
    ( /\ req[c].method \in PrivilegedMethods
      /\ session[c].obtained
      /\ pc[c] \in { "privileged", "lookup", "returned" } )
    => IF req[c].method = "updateRecordTitle"
         THEN /\ Cardinality(CookieRequests(c)) = 2
              /\ \E i \in CookieRequests(c) : sent[c][i].kind = "export"
              /\ \E i \in CookieRequests(c) : sent[c][i].kind = "privileged"
         ELSE /\ Cardinality(CookieRequests(c)) = 1
              /\ \E i \in CookieRequests(c) : sent[c][i].kind = "privileged"

(* C6 amended: once the handshake is complete, exactly one request of a     *)
(* privileged call carries the session Cookie header, except in             *)
(* update_record_title, where exactly two do: the export fetch and the      *)
(* batch-edit PUT; no request is issued by a call that has returned.        *)
C6_DecoratedRequests ==
  /\ [](C6_State)
  /\ [][\A c \in Calls : pc[c] = "returned" => Len(sent'[c]) <= Len(sent[c])]_vars

C6_Witness ==
  \E c \in Calls :
    /\ req[c].method = "updateRecordTitle"
    /\ pc[c] = "returned"
    /\ Cardinality(CookieRequests(c)) = 2

(* C7: a requested name that is not a registered tool name reaches no       *)
(* handler, issues no request, and comes back as an error envelope whose    *)
(* text reports the unknown tool.                                           *)
C7_UnknownToolIsError ==
  \A c \in Calls :
    ( /\ pc[c] = "returned"
      /\ req[c].via = "dispatch"
      /\ req[c].name \notin RegisteredNames )
    => /\ req[c].method = "none"
       /\ sent[c] = << >>
       /\ result[c].shape = "envelope"
       /\ result[c].isError
       /\ Len(result[c].content) = 1
       /\ TextOf(c) = "Error: Unknown tool: " \o req[c].name

(* C8: whatever the name and whatever the invoked function does,            *)
(* handleToolCall hands back one envelope with a single text item, flagged  *)
(* as an error whenever the invoked function threw; nothing escapes.        *)
C8_AlwaysOneEnvelope ==
  \A c \in Calls :
    ( pc[c] = "returned" /\ req[c].via = "dispatch" )
    => /\ result[c].shape = "envelope"
       /\ Len(result[c].content) = 1
       /\ result[c].content[1].type = "text"
       /\ result[c].threw => result[c].isError

C10_NoticeNamesReturnedCount ==
  \A c \in Calls :
    ( /\ req[c].method = "searchRecords"
      /\ pc[c] = "returned" /\ ~result[c].threw
      /\ work[c].response.hasWarning )
    => work[c].response.warning =
         "Results limited to " \o ToString(work[c].response.nHits) \o " of "
         \o ToString(work[c].response.total)
         \o " total. Use 'from' parameter to paginate."

(* the letters of a supplied sortOrder begin with "desc" in any letter case *)
BeginsWithDesc(v) ==
  /\ Len(v) >= 4
  /\ v[1] \in { "d", "D" } /\ v[2] \in { "e", "E" }
  /\ v[3] \in { "s", "S" } /\ v[4] \in { "c", "C" }

SearchBodyOf(c) == sent[c][1].body[1]

OrderNormalized(c) ==
  LET a == req[c].args
  IN SearchBodyOf(c).order =
       (IF a.sortOrder.set /\ BeginsWithDesc(a.sortOrder.v) THEN "desc" ELSE "asc")

(* C11 as stated: in search_records the normalized sort order is "desc"     *)
(* exactly when the supplied sortOrder, lower-cased, starts with "desc" and *)
(* "asc" otherwise (absent included), and the body carries a sort clause    *)
(* on sortBy with that order if and only if sortBy is supplied.             *)
C11_SortClauseIffSupplied ==
  \A c \in Calls :
    ( Active(c) /\ req[c].method = "searchRecords" )
    => /\ OrderNormalized(c)
       /\ SearchBodyOf(c).hasSort <=> req[c].args.sortBy.set
       /\ SearchBodyOf(c).hasSort => SearchBodyOf(c).sortBy = req[c].args.sortBy.v

(* C11 amended: the order is normalized as stated, and the body carries a   *)
(* sort clause on sortBy with that order if and only if sortBy is supplied  *)
(* and is not the empty string.                                             *)
C11_SortClauseIffNonEmpty ==
  \A c \in Calls :
    ( Active(c) /\ req[c].method = "searchRecords" )
    => /\ OrderNormalized(c)
       /\ SearchBodyOf(c).hasSort
            <=> (req[c].args.sortBy.set /\ req[c].args.sortBy.v # "")
       /\ SearchBodyOf(c).hasSort => SearchBodyOf(c).sortBy = req[c].args.sortBy.v

C11_Witness ==
  \E c \in Calls :
    /\ Active(c) /\ req[c].method = "searchRecords"
    /\ req[c].args.sortBy = Some("title")
    /\ req[c].args.sortOrder.set
    /\ Len(req[c].args.sortOrder.v) = 10
    /\ SearchBodyOf(c).hasSort /\ SearchBodyOf(c).order = "desc"

(* the privileged requests call c has issued, in order *)
PrivilegedSent(c) == SelectSeq(sent[c], LAMBDA r : r.kind = "privileged")

(* C12: the batch-edit body update_record sends is exactly one element      *)
(* {xpath, value}: xpath is the caller's locator; value is the empty delete *)
(* marker for operation delete whatever value was supplied, the supplied    *)
(* value inside the add tag for add, and the supplied value inside the      *)
(* replace tag for replace, for an absent operation and for any other one.  *)
C12_OneElementEnvelope ==
  \A c \in Calls :
    ( req[c].method = "updateRecord" /\ PrivilegedSent(c) # << >> )
    => LET a == req[c].args
           b == PrivilegedSent(c)[1].body
       IN /\ Len(PrivilegedSent(c)) = 1
          /\ Len(b) = 1
          /\ DOMAIN b[1] = { "xpath", "value" }
          /\ b[1].xpath = a.xpath
          /\ b[1].value =
               (IF a.operation.set /\ a.operation.v = "delete" THEN "<gn_delete/>"
                ELSE IF a.operation.set /\ a.operation.v = "add"
                  THEN "<gn_add>" \o a.value \o "</gn_add>"
                ELSE "<gn_replace>" \o a.value \o "</gn_replace>")

C12_Witness ==
  \E c \in Calls :
    /\ req[c].method = "updateRecord"
    /\ req[c].args.operation = Some("delete")
    /\ req[c].args.value = "<b>x</b>"
    /\ PrivilegedSent(c) # << >>
    /\ PrivilegedSent(c)[1].body[1].value = "<gn_delete/>"

(* C13: in update_record_title the dialect and the title locator sent are   *)
(* determined by the fetched export content alone: content with an older-   *)
(* dialect marker (gmd:MD_Metadata or xmlns:gmd=) gives the older dialect   *)
(* and its gmd title path; any other content, and a failed fetch, give the  *)
(* newer dialect and its mdb/mri/cit title path.                            *)
C13_DialectFromContent ==
  \A c \in Calls :
    ( req[c].method = "updateRecordTitle" /\ PrivilegedSent(c) # << >> )
    => LET x == work[c].xmlContent
           older == work[c].fetched
                    /\ ("gmd:MD_Metadata" \in x \/ "xmlns:gmd=" \in x)
       IN /\ work[c].schemaType = (IF older THEN "iso19139" ELSE "iso19115-3")
          /\ Len(PrivilegedSent(c)[1].body) = 1
          /\ PrivilegedSent(c)[1].body[1].xpath =
               (IF older
                  THEN "gmd:identificationInfo/*/gmd:citation/gmd:CI_Citation/gmd:title/gco:CharacterString"
                  ELSE "mdb:identificationInfo/*/mri:citation/cit:CI_Citation/cit:title/gco:CharacterString")

C13_Witness ==
  \E c \in Calls :
    /\ req[c].method = "updateRecordTitle" /\ PrivilegedSent(c) # << >>
    /\ work[c].fetched
    /\ work[c].xmlContent = { "gmd:MD_Metadata", "xmlns:mdb=" }
    /\ work[c].schemaType = "iso19139"

(* the duplicate answer call c received, once the duplicate PUT succeeded *)
HasDuplicateResult(c) ==
  req[c].method = "duplicateRecord" /\ "duplicateResult" \in DOMAIN work[c]

ContainsUuid(d) == d.uuid # "" \/ d.metadataUuid # ""

ContainsNumericId(d) ==
  \/ d.id.kind = "number" /\ d.id.n # 0
  \/ d.id.kind = "none" /\ d.metadataId # 0
  \/ d.id.kind = "none" /\ d.metadataId = 0 /\ d.bare # 0

(* C14: after a successful duplicate PUT, an answer that contains a UUID    *)
(* (uuid or metadataUuid) is followed by no lookup request, and an answer   *)
(* that contains only a numeric internal id by exactly one lookup request.  *)
C14_LookupOnlyForBareId ==
  \A c \in Calls :
    HasDuplicateResult(c)
    => LET d == work[c].duplicateResult
       IN /\ ContainsUuid(d) => NumKind(sent[c], "lookup") = 0
          /\ (~ContainsUuid(d) /\ ContainsNumericId(d))
               => NumKind(sent[c], "lookup") = 1

C14_Witness ==
  \E c \in Calls :
    /\ HasDuplicateResult(c) /\ pc[c] = "returned"
    /\ work[c].duplicateResult = DupData("", "", Num(42), 0, 0, FALSE)
    /\ NumKind(sent[c], "lookup") = 1
    /\ sent[c][Len(sent[c])].kind = "lookup"

(* C15: duplicate_record whose upstream answer is {id: n} with no UUID and  *)
(* whose follow-up lookup returns zero hits ends with a result that is not  *)
(* an error and whose payload has newUuid equal to null and newId equal to  *)
(* n.                                                                       *)
C15_NullUuidAfterEmptyLookup ==
  \A c \in Calls :
    ( /\ HasDuplicateResult(c) /\ pc[c] = "returned"
      /\ "lookupOk" \in DOMAIN work[c]
      /\ work[c].lookupOk /\ work[c].hits = << >>
      /\ ~ContainsUuid(work[c].duplicateResult)
      /\ work[c].duplicateResult.id.kind = "number" )
    => /\ ~IsErrorResult(c)
       /\ "newId" \in DOMAIN work[c].payload
       /\ work[c].payload.newId = work[c].duplicateResult.id
       /\ "newUuid" \in DOMAIN work[c].payload
       /\ work[c].payload.newUuid = [kind |-> "null", v |-> ""]

(* the not-found text get_record_by_id gives for an id *)
NotFoundText(id) ==
  ToString(
    [error |-> "Record not found", id |-> id,
     message |-> "No record found with internal ID " \o ToString(id) \o
       ". The record may not be indexed yet (newly created records can take a few seconds to appear in search). Try again in a moment or use get_record with the UUID if you have it."])

(* call c of get_record_by_id got zero hits from its search *)
ZeroHits(c) ==
  /\ req[c].method = "getRecordById"
  /\ "searchHits" \in DOMAIN work[c]
  /\ work[c].searchHits = 0

(* C16: get_record_by_id issues the multi-field search first; the sign-in   *)
(* and the direct record fetch are issued only after that search returned   *)
(* zero hits with both username and password configured; and a call that    *)
(* has returned with zero hits and without a successful direct fetch (no    *)
(* credentials, failed login, failed fetch) has returned, not thrown, the    *)
(* not-found payload carrying the id and the guidance text.                 *)
C16_FallbackThenNotFound ==
  \A c \in Calls :
    ( Active(c) /\ req[c].method = "getRecordById" )
    => /\ sent[c][1].kind = "byid_search"
       /\ \A i \in 2..Len(sent[c]) :
            /\ sent[c][i].kind \in { "signin", "siteinfo", "direct" }
            /\ ZeroHits(c)
            /\ config.username # "" /\ config.password # ""
       /\ ( pc[c] = "returned" /\ ZeroHits(c) /\ ~work[c].directOk )
          => /\ result[c].shape = "envelope"
             /\ ~result[c].threw
             /\ Len(result[c].content) = 1
             /\ TextOf(c) = NotFoundText(req[c].args.id)

C16_Witness ==
  \E c \in Calls :
    /\ req[c].method = "getRecordById" /\ pc[c] = "returned"
    /\ ZeroHits(c) /\ ~work[c].directOk
    /\ Len(sent[c]) = 2 /\ sent[c][2].kind = "signin"
    /\ session[c].signinStatus = 500
    /\ TextOf(c) = NotFoundText(42)

(* C17: a no-hits outcome is a valid result in both places it can occur:    *)
(* duplicate_record whose UUID lookup found nothing, and get_record_by_id   *)
(* whose id could not be resolved, have each returned an envelope that is   *)
(* not flagged as an error, without throwing.                               *)
C17_NoHitsIsNotAnError ==
  \A c \in Calls :
    ( pc[c] = "returned"
      /\ \/ ( /\ HasDuplicateResult(c)
              /\ "lookupOk" \in DOMAIN work[c]
              /\ work[c].lookupOk /\ work[c].hits = << >> )
         \/ ( ZeroHits(c) /\ ~work[c].directOk ) )
    => /\ result[c].shape = "envelope"
       /\ ~result[c].threw
       /\ ~result[c].isError

(* the step-2 info GET of call c was answered with a failure or not at all *)
SiteInfoFailed(c) == session[c].siteInfoStatus \notin { -1, 200 }

(* C18: in a privileged call whose step 1 obtained the primary token, a     *)
(* failed step-2 info GET does not end the call: the privileged request is  *)
(* sent with the primary token alone; a call ends because of step 2 only    *)
(* when both tokens are absent.                                             *)
C18_SiteInfoFailureNonFatal ==
  \A c \in Calls :
    ( /\ Active(c) /\ req[c].method \in PrivilegedMethods
      /\ SiteInfoFailed(c) )
    => /\ session[c].gnSessionId # ""
         => \E i \in 1..Len(sent[c]) :
              /\ sent[c][i].kind \in { "privileged", "export" }
              /\ sent[c][i].cookie = "GNSESSIONID=" \o session[c].gnSessionId
       /\ ( pc[c] = "returned" /\ sent[c][Len(sent[c])].kind = "siteinfo" )
         => ( session[c].gnSessionId = "" /\ session[c].jsSessionId = "" )

(* C19: every outbound request a tool call issues (sign-in POST, info GET,  *)
(* export fetch, privileged PUT/DELETE, search POST, read-only GET) is      *)
(* issued with a finite timeout configured.                                 *)
C19_EveryRequestHasTimeout ==
  \A c \in Calls :
    \A i \in 1..Len(sent[c]) :
      sent[c][i].timeout > 0 /\ sent[c][i].timeout <= 30000

RequestKinds ==
  { "signin", "siteinfo", "export", "privileged", "lookup", "search",
    "byid_search", "direct", "readonly" }

(* the i-th request of call c was answered with a failure or not at all *)
FailedAttempt(c, i) ==
  /\ i <= Len(answers[c])
  /\ \/ answers[c][i].status = NoResponse
     \/ sent[c][i].kind = "signin" /\ answers[c][i].status >= 400
     \/ sent[c][i].kind # "signin"
        /\ (answers[c][i].status < 200 \/ answers[c][i].status >= 300)

(* the failure of the i-th request is what call c handed to its caller *)
SurfacedAttempt(c, i) ==
  LET st == answers[c][i].status
      bd == answers[c][i].body
  IN /\ i = Len(sent[c])
     /\ pc[c] = "returned"
     /\ IsErrorResult(c)
     /\ st # NoResponse =>
          IF req[c].via = "dispatch"
            THEN TextOf(c) =
                   "Error: Request failed with status code " \o ToString(st)
                   \o "\nStatus: " \o ToString(st)
                   \o (IF bd # "" THEN "\n" \o bd ELSE "")
            ELSE result[c].error.status = st /\ result[c].error.data = bd

NeverReissued(c) ==
  \A k \in RequestKinds : NumKind(sent[c], k) <= 1

(* the requests whose failure the handler deliberately absorbs *)
BestEffortAttempt(c, i) ==
  \/ sent[c][i].kind \in { "export", "lookup" }
  \/ req[c].method = "getRecordById"
     /\ sent[c][i].kind \in { "signin", "siteinfo", "direct" }

(* C20 as stated: no request is retried: within one call the sign-in POST,  *)
(* the info GET and the tool's catalogue request are each issued at most    *)
(* once, and every failed attempt is the call's last request, the call      *)
(* ending with that error, upstream status and body included.               *)
C20_FailureAlwaysSurfaces ==
  \A c \in Calls :
    Active(c)
    => /\ NeverReissued(c)
       /\ \A i \in 1..Len(sent[c]) : FailedAttempt(c, i) => SurfacedAttempt(c, i)

(* C20 amended: no request is retried, each kind being issued at most once  *)
(* per call; a failed attempt ends the call with its error, upstream status *)
(* and body included, except the best-effort requests: a failed export      *)
(* fetch or UUID lookup is ignored and the call goes on, and a failure in   *)
(* the authenticated fallback of get_record_by_id ends the call with the    *)
(* not-found payload.                                                       *)
C20_NoRetry ==
  \A c \in Calls :
    Active(c)
    => /\ NeverReissued(c)
       /\ \A i \in 1..Len(sent[c]) :
            FailedAttempt(c, i)
            => IF ~BestEffortAttempt(c, i) THEN SurfacedAttempt(c, i)
               ELSE IF req[c].method = "getRecordById"
                 THEN /\ i = Len(sent[c]) /\ pc[c] = "returned"
                      /\ TextOf(c) = NotFoundText(req[c].args.id)
               ELSE /\ sent[c][i].kind = "export" =>
                         ( Len(sent[c]) = i + 1 /\ sent[c][i + 1].kind = "privileged" )
                    /\ sent[c][i].kind = "lookup" =>
                         ( Len(sent[c]) = i /\ pc[c] = "returned" /\ ~IsErrorResult(c) )

C20_Witness ==
  \E c \in Calls :
    /\ req[c].method = "updateRecord" /\ req[c].via = "dispatch"
    /\ pc[c] = "returned"
    /\ Len(sent[c]) = 3 /\ sent[c][3].kind = "privileged"
    /\ FailedAttempt(c, 3)
    /\ answers[c][3].status = 403 /\ answers[c][3].body # ""
    /\ result[c].isError

(* the Cookie headers that can be composed of tokens returned to other      *)
(* calls than c and of none returned to c                                   *)
ForeignCookies(c) ==
  LET own == { t.n \o "=" \o t.v : t \in issued[c] }
      foreign == { t.n \o "=" \o t.v : t \in UNION { issued[d] : d \in Calls \ { c } } } \ own
      all == own \cup foreign
  IN foreign \cup { q[1] \o "; " \o q[2] :
                      q \in { r \in all \X all : r[1] \in foreign \/ r[2] \in foreign } }

(* C21: in every interleaving of concurrently running privileged calls on   *)
(* one handler object, the Cookie header of each call's privileged request  *)
(* is composed only of tokens returned to that call's own handshake         *)
(* requests, never of a token returned to another call.                     *)
C21_NoCrossCallTokens ==
  \A c \in Calls :
    \A i \in CookieRequests(c) :
      /\ sent[c][i].cookie \in AllowedCookies(c)
      /\ sent[c][i].cookie \notin ForeignCookies(c)

C21_Witness ==
  \E c \in Calls : \E d \in Calls \ { c } :
    /\ pc[c] = "privileged" /\ pc[d] = "privileged"
    /\ issued[c] # {} /\ issued[d] # {} /\ issued[c] \cap issued[d] = {}
    /\ \E i \in CookieRequests(c) : \E j \in CookieRequests(d) :
         /\ sent[c][i].cookie # "" /\ sent[d][j].cookie # ""
         /\ sent[c][i].cookie # sent[d][j].cookie

(* the value an optional argument of duplicate_record takes effect with *)
EffectiveDuplicateArgs(a) ==
  [group |-> IF a.group.set THEN a.group.v ELSE "",
   targetUuid |-> IF a.targetUuid.set THEN a.targetUuid.v ELSE "",
   isChildOfSource |-> IF a.isChildOfSource.set THEN a.isChildOfSource.v ELSE FALSE,
   hasCategoryOfSource |->
     IF a.hasCategoryOfSource.set THEN a.hasCategoryOfSource.v ELSE TRUE]

(* C22: duplicate_record issues a PUT with no body; its query parameters    *)
(* always hold the source identifier and hold group only if non-empty,      *)
(* targetUuid only if non-empty, isChildOfSource only when true and         *)
(* hasCategoryOfSource only when false, so that an omitted argument and one *)
(* set to its default give the same request.                                *)
C22_DuplicateQueryParameters ==
  \A c \in Calls :
    ( req[c].method = "duplicateRecord" /\ PrivilegedSent(c) # << >> )
    => LET e == EffectiveDuplicateArgs(req[c].args)
           r == PrivilegedSent(c)[1]
       IN /\ r.verb = "PUT"
          /\ r.body = << >>
          /\ << "sourceUuid", req[c].args.metadataUuid >> \in r.params
          /\ \A kv \in r.params :
               kv[1] \in { "sourceUuid", "group", "targetUuid",
                           "isChildOfSource", "hasCategoryOfSource" }
          /\ (\E kv \in r.params : kv[1] = "group") <=> e.group # ""
          /\ e.group # "" => << "group", e.group >> \in r.params
          /\ (\E kv \in r.params : kv[1] = "targetUuid") <=> e.targetUuid # ""
          /\ e.targetUuid # "" => << "targetUuid", e.targetUuid >> \in r.params
          /\ (\E kv \in r.params : kv[1] = "isChildOfSource") <=> e.isChildOfSource
          /\ e.isChildOfSource => << "isChildOfSource", "true" >> \in r.params
          /\ (\E kv \in r.params : kv[1] = "hasCategoryOfSource")
               <=> ~e.hasCategoryOfSource
          /\ ~e.hasCategoryOfSource => << "hasCategoryOfSource", "false" >> \in r.params

C22_Witness ==
  \E c \in Calls :
    /\ req[c].method = "duplicateRecord" /\ PrivilegedSent(c) # << >>
    /\ req[c].args.isChildOfSource = Some(FALSE)
    /\ req[c].args.hasCategoryOfSource = Some(TRUE)
    /\ req[c].args.group = Some("")
    /\ PrivilegedSent(c)[1].params = { << "sourceUuid", "rec-1" >> }

(* position of the first request of a kind among those call c has issued *)
FirstOfKind(c, kind) ==
  CHOOSE i \in 1..Len(sent[c]) :
    sent[c][i].kind = kind /\ \A j \in 1..(i - 1) : sent[c][j].kind # kind

C23_Placement ==
  \A c \in Calls :
    NumKind(sent[c], "siteinfo") > 0
    => LET i == FirstOfKind(c, "siteinfo")
       IN /\ NumKind(sent[c], "siteinfo") = 1
          /\ i > 1 /\ sent[c][i - 1].kind = "signin"
          /\ Len(answers[c]) >= i - 1
          /\ answers[c][i - 1].status # NoResponse /\ answers[c][i - 1].status < 400
          /\ \A j \in 1..Len(sent[c]) :
               sent[c][j].kind \in { "privileged", "export", "direct" } => j > i
          /\ sent[c][i].hasCookie
          /\ sent[c][i].cookie =
               (IF session[c].gnSessionId # ""
                  THEN "GNSESSIONID=" \o session[c].gnSessionId ELSE "")

C23_Step(c) ==
  /\ ( pc[c] = "signin" /\ pc'[c] # "signin"
       /\ session'[c].signinStatus # NoResponse /\ session'[c].signinStatus < 400 )
     => ( NumKind(sent'[c], "siteinfo") = 1 <=> session'[c].jsSessionId = "" )
  /\ NumKind(sent'[c], "siteinfo") > NumKind(sent[c], "siteinfo")
     => pc[c] = "signin"

(* C23: in a handshake whose sign-in was accepted, the info GET is issued   *)
(* if and only if the sign-in answer yielded no JSESSIONID; it is issued    *)
(* once, right after the sign-in answer arrived and before the privileged   *)
(* request, with the primary token as its cookie when one was obtained.     *)
C23_InfoGetIffNoSecondaryToken ==
  [](C23_Placement) /\ [][\A c \in Calls : C23_Step(c)]_vars

C23_Witness ==
  \E c \in Calls :
    /\ pc[c] = "siteinfo"
    /\ session[c].gnSessionId # "" /\ session[c].jsSessionId = ""
    /\ sent[c][Len(sent[c])].kind = "siteinfo"
    /\ sent[c][Len(sent[c])].cookie = "GNSESSIONID=" \o session[c].gnSessionId

KindsSent(c) == [i \in 1..Len(sent[c]) |-> sent[c][i].kind]

IsPrefix(p, q) == Len(p) <= Len(q) /\ p = SubSeq(q, 1, Len(p))

(* C24: the requests of a duplicate_record call occur in the order sign-in  *)
(* POST, optional info GET, duplicate PUT, optional UUID lookup; the lookup *)
(* is issued only once the duplicate PUT has been answered, and only when   *)
(* that answer was a success.                                               *)
C24_DuplicateRequestOrder ==
  \A c \in Calls :
    ( Active(c) /\ req[c].method = "duplicateRecord" )
    => /\ \/ IsPrefix(KindsSent(c), << "signin", "siteinfo", "privileged", "lookup" >>)
          \/ IsPrefix(KindsSent(c), << "signin", "privileged", "lookup" >>)
       /\ \A i \in 1..Len(sent[c]) :
            sent[c][i].kind = "lookup"
            => /\ i > 1 /\ sent[c][i - 1].kind = "privileged"
               /\ Len(answers[c]) >= i - 1
               /\ answers[c][i - 1].status >= 200 /\ answers[c][i - 1].status < 300

C24_Witness ==
  \E c \in Calls :
    /\ req[c].method = "duplicateRecord"
    /\ KindsSent(c) = << "signin", "siteinfo", "privileged", "lookup" >>
    /\ Len(answers[c]) = 3

(* C25: an update_record_title call with credentials configured issues, in  *)
(* this order, the handshake requests, its own export fetch and one         *)
(* batch-edit PUT; the dialect comes from the content this call fetched     *)
(* and from nothing else; and when the export fetch fails the call goes on  *)
(* and sends the batch-edit PUT with the newer dialect's title locator.     *)
C25_TitleUpdateSequence ==
  \A c \in Calls :
    ( /\ Active(c) /\ req[c].method = "updateRecordTitle"
      /\ config.username # "" /\ config.password # "" )
    => /\ \/ IsPrefix(KindsSent(c), << "signin", "siteinfo", "export", "privileged" >>)
          \/ IsPrefix(KindsSent(c), << "signin", "export", "privileged" >>)
       /\ Len(sent[c]) >= 1
       /\ session[c].obtained => NumKind(sent[c], "export") = 1
       /\ \A i \in 1..Len(sent[c]) :
            ( sent[c][i].kind = "export" /\ Len(answers[c]) >= i )
            => LET fetched == answers[c][i].status >= 200 /\ answers[c][i].status < 300
                   older == fetched /\ ( "gmd:MD_Metadata" \in work[c].xmlContent
                                         \/ "xmlns:gmd=" \in work[c].xmlContent )
               IN /\ Len(sent[c]) = i + 1
                  /\ sent[c][i + 1].kind = "privileged"
                  /\ sent[c][i + 1].verb = "PUT"
                  /\ ~fetched => work[c].xmlContent = {}
                  /\ older =>
                       sent[c][i + 1].body[1].xpath =
                         "gmd:identificationInfo/*/gmd:citation/gmd:CI_Citation/gmd:title/gco:CharacterString"
                  /\ ~older =>
                       sent[c][i + 1].body[1].xpath =
                         "mdb:identificationInfo/*/mri:citation/cit:CI_Citation/cit:title/gco:CharacterString"

C25_Witness ==
  \E c \in Calls :
    /\ stats.calls = 2
    /\ req[c].method = "updateRecordTitle"
    /\ KindsSent(c) = << "signin", "siteinfo", "export", "privileged" >>
    /\ answers[c][3].status = 403
    /\ sent[c][4].body[1].xpath =
         "mdb:identificationInfo/*/mri:citation/cit:CI_Citation/cit:title/gco:CharacterString"

(* the message lines of the failures that carry no upstream answer *)
LocalFailureLines ==
  { "Error: timeout of request exceeded",
    "Error: this.handlers.uploadFileToRecord is not a function",
    "Error: Cannot read properties of null (reading 'uuid')",
    "Error: Cannot convert undefined or null to object",
    "Error: handler is not a function" }
  \cup { "Error: Unknown tool: " \o n : n \in RequestedNames }

(* the failure handleToolCall caught for call c came with an upstream answer *)
CaughtUpstream(c) ==
  /\ Len(answers[c]) > 0
  /\ Len(answers[c]) = Len(sent[c])
  /\ FailedAttempt(c, Len(answers[c]))
  /\ answers[c][Len(answers[c])].status # NoResponse

(* C26: the text of an error result built by handleToolCall is the message  *)
(* line, then a status line exactly when the failure carried an upstream    *)
(* HTTP status, then the serialized upstream body exactly when it carried   *)
(* one, joined by newlines in that order.                                   *)
C26_DiagnosticText ==
  \A c \in Calls :
    ( pc[c] = "returned" /\ req[c].via = "dispatch" /\ result[c].threw )
    => /\ result[c].shape = "envelope" /\ result[c].isError
       /\ IF CaughtUpstream(c)
            THEN LET st == answers[c][Len(answers[c])].status
                     bd == answers[c][Len(answers[c])].body
                 IN TextOf(c) =
                      "Error: Request failed with status code " \o ToString(st)
                      \o "\n" \o "Status: " \o ToString(st)
                      \o (IF bd # "" THEN "\n" \o bd ELSE "")
            ELSE TextOf(c) \in LocalFailureLines

C26_Witness ==
  \E c \in Calls :
    /\ pc[c] = "returned" /\ req[c].via = "dispatch" /\ result[c].threw
    /\ req[c].method = "getTags"
    /\ CaughtUpstream(c)
    /\ answers[c][1].body # ""
    /\ TextOf(c) = "Error: Request failed with status code 403\nStatus: 403\n"
                   \o answers[c][1].body

(* C27: registry and dispatch table agree: every advertised tool name has   *)
(* a dispatch entry whose method the handler object defines, so a call of   *)
(* an advertised tool reaches its handler and does not end in an            *)
(* unknown-tool or missing-method error; every dispatch entry names an      *)
(* advertised tool.                                                         *)
C27_RegistryMatchesDispatch ==
  \A c \in Calls :
    ( Active(c) /\ req[c].via = "dispatch" )
    => /\ req[c].name \in tools
            => /\ req[c].name \in RegisteredNames
               /\ toolHandlers[req[c].name] \in HandlerMethods
               /\ req[c].method = toolHandlers[req[c].name]
               /\ ~( pc[c] = "returned" /\ result[c].threw /\ sent[c] = << >> )
       /\ req[c].name \in RegisteredNames => req[c].name \in tools

(* C28: the dispatcher invokes a function only for own entries of its       *)
(* table: a requested name that is no entry but is a property every object  *)
(* inherits (toString, constructor, ...) is treated as an unknown tool: no  *)
(* function is invoked for it and the call yields an error result.          *)
C28_OnlyOwnEntriesInvoked ==
  \A c \in Calls :
    ( /\ pc[c] = "returned" /\ req[c].via = "dispatch"
      /\ req[c].name \in { "toString", "constructor", "valueOf", "__proto__" } )
    => /\ LookupHandler(req[c].name) # "thunk"
       /\ result[c].shape \notin { "string", "object" }
       /\ result[c].shape = "envelope" /\ result[c].isError
       /\ result[c] = [ErrorEnvelope("Error: Unknown tool: " \o req[c].name)
                         EXCEPT !.threw = TRUE]

HasOlderMarker(x) == "gmd:MD_Metadata" \in x \/ "xmlns:gmd=" \in x

HasNewerMarker(x) == "mdb:MD_Metadata" \in x \/ "xmlns:mdb=" \in x

(* C29: in update_record_title, exported content that holds markers of both *)
(* dialects gives the older dialect and its gmd title locator; the newer    *)
(* dialect is chosen only for content in which no gmd marker occurs.        *)
C29_OlderDialectWins ==
  \A c \in Calls :
    ( /\ req[c].method = "updateRecordTitle" /\ PrivilegedSent(c) # << >>
      /\ work[c].fetched )
    => /\ ( HasOlderMarker(work[c].xmlContent) /\ HasNewerMarker(work[c].xmlContent) )
            => /\ work[c].schemaType = "iso19139"
               /\ PrivilegedSent(c)[1].body[1].xpath =
                    "gmd:identificationInfo/*/gmd:citation/gmd:CI_Citation/gmd:title/gco:CharacterString"
       /\ work[c].schemaType = "iso19115-3" => ~HasOlderMarker(work[c].xmlContent)
       /\ PrivilegedSent(c)[1].body[1].xpath =
            "mdb:identificationInfo/*/mri:citation/cit:CI_Citation/cit:title/gco:CharacterString"
            => ~HasOlderMarker(work[c].xmlContent)

C29_Witness ==
  \E c \in Calls :
    /\ req[c].method = "updateRecordTitle" /\ pc[c] = "returned"
    /\ PrivilegedSent(c) # << >>
    /\ work[c].fetched
    /\ HasOlderMarker(work[c].xmlContent) /\ HasNewerMarker(work[c].xmlContent)
    /\ PrivilegedSent(c)[1].body[1].xpath =
         "gmd:identificationInfo/*/gmd:citation/gmd:CI_Citation/gmd:title/gco:CharacterString"
    /\ ~result[c].isError

(* C30: in duplicate_record a failed UUID lookup after a successful         *)
(* duplicate PUT does not make the call an error: the call returns a        *)
(* non-error success result carrying newId and the raw upstream answer,     *)
(* the UUID left unresolved.                                                *)
C30_LookupFailureIsSwallowed ==
  \A c \in Calls :
    ( /\ req[c].method = "duplicateRecord" /\ pc[c] = "returned"
      /\ Len(sent[c]) > 0 /\ sent[c][Len(sent[c])].kind = "lookup"
      /\ Len(answers[c]) = Len(sent[c])
      /\ ( answers[c][Len(answers[c])].status = NoResponse
           \/ answers[c][Len(answers[c])].status >= 300 ) )
    => /\ result[c].shape = "envelope"
       /\ ~result[c].isError /\ ~result[c].threw
       /\ Len(result[c].content) = 1
       /\ work[c].payload.success
       /\ work[c].payload.newId.kind = "number"
       /\ work[c].payload.newId.n # 0
       /\ work[c].payload.rawResponse = work[c].duplicateResult
       /\ "newUuid" \notin DOMAIN work[c].payload
       /\ TextOf(c) = ToString(work[c].payload)

C30_Witness ==
  \E c \in Calls :
    /\ req[c].method = "duplicateRecord" /\ pc[c] = "returned"
    /\ KindsSent(c) = << "signin", "privileged", "lookup" >>
    /\ Len(answers[c]) = 3 /\ answers[c][3].status = 403
    /\ ~result[c].isError
    /\ work[c].payload.newId = Num(42)

====
